---- MODULE Spec2Model ----
(***************************************************************************)
(* Model of src/workers.js: the Edge-TTS proxy worker.                     *)
(*                                                                         *)
(* One speech request at a time is followed through handleSpeechRequest,   *)
(* getVoice / streamVoice / pipeChunksToStream, the getAudioChunk calls of *)
(* its batches and the getEndpoint credential cache (tokenInfo), which     *)
(* outlives the requests.  An action is the code that runs between two     *)
(* awaits: a handler entered, a network answer delivered to the call that  *)
(* waits for it, or the continuation of a settled promise.                 *)
(***************************************************************************)
EXTENDS Integers, Sequences, FiniteSets, TLC

\* ---------------------------------------------------------------- bounds
MaxChunks == 4
MaxConcurrency == 2
MaxTime == 600
TickStep == 300
TokenLifetime == 600
MaxNegConcurrency == 1
MaxTextLen == 4
MaxChunkLength == 3

\* ------------------------------------------------------ program constants
TOKEN_REFRESH_BEFORE_EXPIRY == 5 * 60

VARIABLES
    tokenInfo,  \* the module-level credential cache
    now,        \* Date.now() / 1000
    run         \* the locals of the request being served, as one record

vars == <<tokenInfo, now, run>>

\* null for objects and strings; a null expiredAt is the (equally falsy) 0
Null == <<>>

Min(a, b) == IF a < b THEN a ELSE b
Max(a, b) == IF a > b THEN a ELSE b

\* new Blob(parts): the bytes of the parts, one after the other
RECURSIVE ConcatBlobs(_)
ConcatBlobs(parts) ==
    IF parts = <<>> THEN [bytes |-> <<>>]
    ELSE [bytes |-> Head(parts).bytes \o ConcatBlobs(Tail(parts)).bytes]

\* ------------------------------------------------------------- the backend
\* response.blob() of the backend's answer for a chunk text: two "bytes"
SynthAudio(text) == [bytes |-> <<Len(text), text>>]

\* new Uint8Array(await blob.arrayBuffer())
BlobBytes(blob) == blob.bytes

\* the identity service's answer: data, whose data.t is a JWT carrying exp
IssueToken(iat) == <<iat, iat + TokenLifetime>>

\* JSON.parse(atob(data.t.split(".")[1])).exp
JwtExp(data) == data[2]

\* ----------------------------------------------------------- getEndpoint
\* a cache test with the margin taken twice
CacheFreshWideMargin(ti, t) ==
    /\ ti.token # Null
    /\ ti.expiredAt # 0
    /\ t < ti.expiredAt - 2 * TOKEN_REFRESH_BEFORE_EXPIRY

\* line 200: the cache test getEndpoint makes before any await
CacheFresh(ti, t) ==
    /\ ti.token # Null
    /\ ti.expiredAt # 0
    /\ t < ti.expiredAt - TOKEN_REFRESH_BEFORE_EXPIRY

\* an assignment that keeps the cached credential when it expires later
StoreTokenIfLater(data) ==
    IF JwtExp(data) >= tokenInfo.expiredAt
    THEN [endpoint |-> data, token |-> data, expiredAt |-> JwtExp(data)]
    ELSE tokenInfo

\* line 212
StoreToken(data) == [endpoint |-> data, token |-> data, expiredAt |-> JwtExp(data)]

\* ---------------------------------------------------------- getAudioChunk
\* via: the return of getEndpoint the call left by ("cached" line 200,
\* "fetched" line 214, "fallback" line 219), "" while it has not returned
IdleCall == [st |-> "idle", ep |-> Null, sent |-> 0, via |-> ""]

\* getAudioChunk up to its first pending await: with a fresh cache getEndpoint
\* returns at once and the synthesis fetch is issued; otherwise the call
\* waits for its own refresh exchange with the identity service.
GetAudioChunkStart(ti, t) ==
    IF CacheFresh(ti, t)
    THEN [st |-> "synth", ep |-> ti.endpoint, sent |-> t, via |-> "cached"]
    ELSE [st |-> "refresh", ep |-> Null, sent |-> t, via |-> ""]

InFlight(st) == st \in {"refresh", "synth"}

\* ------------------------------------------------------------ the batches
\* Array.prototype.slice(start, end) as the positions (1-based) it selects
RelIndex(k, len) == IF k < 0 THEN Max(len + k, 0) ELSE Min(k, len)

Slice(len, start, end) ==
    LET lo == RelIndex(start, len)
        hi == RelIndex(end, len)
    IN  [j \in 1..Max(hi - lo, 0) |-> lo + j]

\* a batch that takes one chunk more than the limit
BatchOffByOne(len, i, c) == Slice(len, i, i + c + 1)

\* chunks.slice(i, i + concurrency)
Batch(len, i, c) == Slice(len, i, i + c)

\* the results in the order the calls completed
PromiseAllByCompletion(r) ==
    [j \in 1..Len(r.completed) |-> SynthAudio(r.chunks[r.completed[j]])]

\* the value Promise.all resolves to: the blobs in the order of the promises
PromiseAll(r) ==
    [j \in 1..Len(r.batch) |-> SynthAudio(r.chunks[r.batch[j]])]

\* resolved as soon as one call of the batch has completed
SomeFulfilled(r) == \E j \in 1..Len(r.batch) : r.calls[r.batch[j]].st = "done"

\* Promise.all is fulfilled when every promise of the batch is
AllFulfilled(r) == \A j \in 1..Len(r.batch) : r.calls[r.batch[j]].st = "done"

\* ------------------------------------------------------------- the writer
\* WritableStreamDefaultWriter: close and abort act on a writable stream only
WriterClose(w) == IF w = "writable" THEN "closed" ELSE w
WriterAbort(w) == IF w = "writable" THEN "errored" ELSE w


\* the blobs appended in front of the collection
UnshiftBlobs(all, blobs) == blobs \o all

\* allAudioBlobs.push(...audioBlobs)
PushBlobs(all, blobs) == all \o blobs

\* ------------------------------------------------------- smartChunkText
\* A text is the sequence of its UTF-16 code units.
\* the class of the split pattern of line 268: . ? ! , ; : \n and the
\* full-width marks, \r
BoundaryChars ==
    {46, 63, 33, 44, 59, 58, 10, 12290, 65311, 65281, 65292, 65307, 65306, 13}

\* the white space String.prototype.trim removes
WhiteSpaceChars ==
    {9, 10, 11, 12, 13, 32, 160, 5760, 8232, 8233, 8239, 8287, 12288, 65279}
        \cup 8192..8202

\* text.split(/([...]+)/g): the pieces between the runs of boundary marks at
\* the odd places, the runs themselves (the captured group) at the even ones
RECURSIVE SplitFrom(_, _)
SplitFrom(parts, rest) ==
    IF rest = <<>>
    THEN IF Len(parts) % 2 = 0 THEN Append(parts, <<>>) ELSE parts
    ELSE LET ch == Head(rest)
             n == Len(parts)
             inRun == n % 2 = 0
         IN  IF (ch \in BoundaryChars) = inRun
             THEN SplitFrom([parts EXCEPT ![n] = Append(@, ch)], Tail(rest))
             ELSE SplitFrom(Append(parts, <<ch>>), Tail(rest))

Split(text) == SplitFrom(<< <<>> >>, text)

RECURSIVE TrimStart(_)
TrimStart(str) ==
    IF str # <<>> /\ Head(str) \in WhiteSpaceChars THEN TrimStart(Tail(str))
    ELSE str

RECURSIVE TrimEnd(_)
TrimEnd(str) ==
    IF str # <<>> /\ str[Len(str)] \in WhiteSpaceChars
    THEN TrimEnd(SubSeq(str, 1, Len(str) - 1))
    ELSE str

\* String.prototype.trim
Trim(str) == TrimEnd(TrimStart(str))

\* if (currentChunk.trim()) chunks.push(currentChunk.trim())
PushTrimmed(chunks, currentChunk) ==
    IF Trim(currentChunk) # <<>> THEN Append(chunks, Trim(currentChunk))
    ELSE chunks

\* a loop body that forgets the chunk it has accumulated when the part does
\* not fit
ChunkStepDrop(acc, part, maxChunkLength) ==
    IF Len(acc.currentChunk) + Len(part) <= maxChunkLength
    THEN [acc EXCEPT !.currentChunk = @ \o part]
    ELSE [acc EXCEPT !.currentChunk = part]

\* lines 270-275: the body of the loop over the parts
ChunkStep(acc, part, maxChunkLength) ==
    IF Len(acc.currentChunk) + Len(part) <= maxChunkLength
    THEN [acc EXCEPT !.currentChunk = @ \o part]
    ELSE [chunks |-> PushTrimmed(acc.chunks, acc.currentChunk),
          currentChunk |-> part]

RECURSIVE Accumulate(_, _, _)
Accumulate(acc, parts, maxChunkLength) ==
    IF parts = <<>> THEN acc
    ELSE Accumulate(ChunkStep(acc, Head(parts), maxChunkLength),
                    Tail(parts), maxChunkLength)

\* lines 266-277: the chunks the pass over the parts makes
BoundaryPass(text, maxChunkLength) ==
    LET acc == Accumulate([chunks |-> <<>>, currentChunk |-> <<>>],
                          Split(text), maxChunkLength)
    IN  PushTrimmed(acc.chunks, acc.currentChunk)

\* text.substring(from, to) for 0 <= from <= to
Substring(text, from, to) == SubSeq(text, from + 1, Min(to, Len(text)))

\* lines 279-281: the slices of maxChunkLength characters from i on
RECURSIVE FixedSlices(_, _, _)
FixedSlices(text, i, maxChunkLength) ==
    IF i < Len(text)
    THEN <<Substring(text, i, i + maxChunkLength)>>
            \o FixedSlices(text, i + maxChunkLength, maxChunkLength)
    ELSE <<>>

\* lines 264-284
smartChunkText(text, maxChunkLength) ==
    IF text = <<>> THEN <<>>
    ELSE LET passed == BoundaryPass(text, maxChunkLength)
             chunks == IF passed = <<>> /\ Len(text) > 0
                       THEN FixedSlices(text, 0, maxChunkLength)
                       ELSE passed
         IN  SelectSeq(chunks, LAMBDA c : Len(c) > 0)

\* -------------------------------------------------------------- getSsml
\* str.replace(/ch/g, by): every ch of str replaced by the string by
RECURSIVE ReplaceAll(_, _, _)
ReplaceAll(str, ch, by) ==
    IF str = <<>> THEN <<>>
    ELSE (IF Head(str) = ch THEN by ELSE <<Head(str)>>)
            \o ReplaceAll(Tail(str), ch, by)

\* line 260 as written: & by '&', < by '<', > by '>'
SanitizedText(text) ==
    ReplaceAll(ReplaceAll(ReplaceAll(text, 38, <<38>>), 60, <<60>>), 62, <<62>>)

\* the markup of line 261 around the text, cut down to the prosody element:
\* "<prosody>" and "</prosody>"
ProsodyOpen == <<60, 112, 114, 111, 115, 111, 100, 121, 62>>
ProsodyClose == <<60, 47, 112, 114, 111, 115, 111, 100, 121, 62>>

\* lines 259-262
getSsml(text) == ProsodyOpen \o SanitizedText(text) \o ProsodyClose

\* ------------------------------------------------- the state of a request
\* lap: the parity of the number of iterations the for loop has completed
NoRun ==
    [mode |-> "none", input |-> <<>>, chunk_size |-> 0,
     chunks |-> <<>>, concurrency |-> 1, i |-> 0, lap |-> 0,
     pc |-> "idle", batch |-> <<>>, calls |-> <<>>, completed |-> <<>>,
     dispatched |-> <<>>, audioBlobs |-> <<>>, w |-> 0,
     allAudioBlobs |-> <<>>, writer |-> "none", written |-> <<>>,
     pipe |-> "none", response |-> "none", body |-> <<>>, ssml |-> <<>>]

\* line 97: textChunks = smartChunkText(cleanedInput, chunk_size)
Segmented(text, size) ==
    LET textChunks == smartChunkText(text, size)
    IN  [NoRun EXCEPT
            !.input = text,
            !.chunk_size = size,
            !.chunks = textChunks,
            !.calls = [k \in 1..Len(textChunks) |-> IdleCall]]

\* the locals of handleSpeechRequest on entry of getVoice / streamVoice;
\* streamVoice has made its TransformStream (line 123)
NewRun(text, size, c, stream) ==
    [Segmented(text, size) EXCEPT
        !.mode = IF stream THEN "stream" ELSE "buffered",
        !.concurrency = c,
        !.writer = IF stream THEN "writable" ELSE "none",
        !.pipe = IF stream THEN "running" ELSE "none"]

InBatch(b, k) == \E j \in 1..Len(b) : b[j] = k

\* lines 138-141 / 160-163: slice the batch, start getAudioChunk for each of
\* its chunks, await Promise.all
DispatchBatch(r, ti, t) ==
    LET b == Batch(Len(r.chunks), r.i, r.concurrency)
    IN  [r EXCEPT
            !.pc = "await",
            !.batch = b,
            !.completed = <<>>,
            !.calls = [k \in DOMAIN r.calls |->
                          IF InBatch(b, k) THEN GetAudioChunkStart(ti, t)
                          ELSE r.calls[k]],
            !.dispatched = r.dispatched \o b]

\* lines 166-167: the buffered response
GetVoiceReturn(r) ==
    [r EXCEPT !.pc = "exited", !.response = "audio",
              !.body = ConcatBlobs(r.allAudioBlobs).bytes]

\* a catch that answers with what was collected so far
GetVoiceCatchPartial(r) ==
    [r EXCEPT !.pc = "exited", !.response = "audio",
              !.body = ConcatBlobs(r.allAudioBlobs).bytes]

\* lines 168-171: the buffered error response, status 500
GetVoiceCatch(r) ==
    [r EXCEPT !.pc = "exited", !.response = "error", !.body = <<>>]

\* line 151 on the path without an exception: finally, then return
PipeReturn(r) ==
    [r EXCEPT !.pc = "exited", !.writer = WriterClose(r.writer),
              !.pipe = "returned"]

\* a catch that does not abort the writer
PipeCatchNoAbort(r) ==
    [r EXCEPT !.pc = "exited", !.writer = WriterClose(r.writer),
              !.pipe = "threw"]

\* a catch that first writes the blobs of the batch that did arrive
PipeCatchFlush(r) ==
    [r EXCEPT !.pc = "exited",
              !.written = r.written \o
                  [j \in 1..Len(r.completed) |->
                      BlobBytes(SynthAudio(r.chunks[r.completed[j]]))],
              !.writer = WriterClose(WriterAbort(r.writer)),
              !.pipe = "threw"]

\* lines 146-152: catch (abort, rethrow), then finally (close)
PipeCatch(r) ==
    [r EXCEPT !.pc = "exited",
              !.writer = WriterClose(WriterAbort(r.writer)),
              !.pipe = "threw"]

\* a streamVoice that returns the response without awaiting the pipeline
StreamVoiceEager(r) ==
    IF r.mode = "stream" THEN [r EXCEPT !.response = "stream"] ELSE r

\* lines 124-131: streamVoice awaits pipeChunksToStream and only then answers
StreamVoiceAwait(r) ==
    IF r.mode = "stream" /\ r.pipe = "returned"
    THEN [r EXCEPT !.response = "stream"]
    ELSE IF r.mode = "stream" /\ r.pipe = "threw"
    THEN [r EXCEPT !.response = "error"]
    ELSE r

\* a loop whose test lets i = length through
LoopHeadInclusive(r, ti, t) ==
    IF r.i <= Len(r.chunks) THEN DispatchBatch(r, ti, t)
    ELSE IF r.mode = "stream" THEN PipeReturn(r)
    ELSE GetVoiceReturn(r)

\* the for statement from its test on (lines 137 / 159)
LoopHead(r, ti, t) ==
    IF r.i < Len(r.chunks) THEN DispatchBatch(r, ti, t)
    ELSE IF r.mode = "stream" THEN PipeReturn(r)
    ELSE GetVoiceReturn(r)

\* the loop index as the model keeps it: an index below -length selects the
\* same (empty) slice and passes the same test as -length, in every later
\* iteration too, so it is kept as -length
LoopIndex(i, len) == Max(i, 0 - len)

\* i += concurrency, then the test
NextIteration(r, ti, t) ==
    LoopHead([r EXCEPT !.i = LoopIndex(r.i + r.concurrency, Len(r.chunks)),
                       !.lap = 1 - r.lap],
             ti, t)

\* a failed batch is skipped and the loop goes on
OnRejectContinue(r, ti, t) == NextIteration(r, ti, t)

\* the rejection of Promise.all lands in the catch clause
OnReject(r, ti, t) ==
    IF r.mode = "stream" THEN PipeCatch(r) ELSE GetVoiceCatch(r)


\* ---------------------------------------------------------------- actions
Init ==
    /\ tokenInfo = [endpoint |-> Null, token |-> Null, expiredAt |-> 0]
    /\ now = 0
    /\ run = NoRun

Positions == DOMAIN run.calls

Quiescent == \A k \in Positions : ~InFlight(run.calls[k].st)

\* a POST /v1/audio/speech whose cleaned input is text, with the request's
\* chunk_size, concurrency and stream fields: lines 97-104, then getVoice or
\* streamVoice up to the first await
handleSpeechRequest(text, size, c, stream) ==
    /\ run.pc \in {"idle", "exited"}
    /\ Quiescent
    /\ run' = StreamVoiceAwait(
                 LoopHead(NewRun(text, size, c, stream), tokenInfo, now))
    /\ UNCHANGED <<tokenInfo, now>>

\* the cleaned input of n short sentences: "a.", "a.b.", "a.b.c." ...
Sentences(n) ==
    [p \in 1..(2 * n) |-> IF p % 2 = 1 THEN 96 + (p + 1) \div 2 ELSE 46]

\* the chunk_size that makes one chunk of each of these sentences
SentenceLength == Len(Sentences(1))

\* the identity service answers call k's refresh with a token it issued at
\* iat: lines 208-214 of getEndpoint, then getAudioChunk issues its fetch
getEndpointRefreshed(k, iat) ==
    /\ run.calls[k].st = "refresh"
    /\ LET data == IssueToken(iat)
       IN  /\ tokenInfo' = StoreToken(data)
           /\ run' = [run EXCEPT !.calls[k].st = "synth", !.calls[k].ep = data,
                                 !.calls[k].via = "fetched"]
    /\ UNCHANGED now

\* a catch clause that drops the cached credential and rethrows
getEndpointFailedClears(k) ==
    /\ run.calls[k].st = "refresh"
    /\ run' = [run EXCEPT !.calls[k].st = "failed"]
    /\ tokenInfo' = [endpoint |-> Null, token |-> Null, expiredAt |-> 0]
    /\ UNCHANGED now

\* call k's refresh fails: lines 215-222, the cached endpoint or the error
getEndpointFailed(k) ==
    /\ run.calls[k].st = "refresh"
    /\ run' = IF tokenInfo.token # Null
              THEN [run EXCEPT !.calls[k].st = "synth",
                               !.calls[k].ep = tokenInfo.endpoint,
                               !.calls[k].via = "fallback"]
              ELSE [run EXCEPT !.calls[k].st = "failed"]
    /\ UNCHANGED <<tokenInfo, now>>

\* the backend answers call k with audio: line 187
getAudioChunkOk(k) ==
    /\ run.calls[k].st = "synth"
    /\ run' = [run EXCEPT !.calls[k].st = "done",
                          !.completed = IF run.pc = "await" THEN Append(@, k) ELSE @]
    /\ UNCHANGED <<tokenInfo, now>>

\* the backend answers call k with a non-success status: lines 183-186
getAudioChunkError(k) ==
    /\ run.calls[k].st = "synth"
    /\ run' = [run EXCEPT !.calls[k].st = "failed"]
    /\ UNCHANGED <<tokenInfo, now>>

\* await Promise.all(audioPromises) resumes with the blobs
PromiseAllFulfilled ==
    /\ run.pc = "await"
    /\ AllFulfilled(run)
    /\ LET blobs == PromiseAll(run)
       IN  run' =
             IF run.mode = "buffered"
             THEN NextIteration(
                    [run EXCEPT !.allAudioBlobs = PushBlobs(@, blobs)],
                    tokenInfo, now)
             ELSE IF blobs = <<>>
             THEN StreamVoiceAwait(NextIteration(run, tokenInfo, now))
             ELSE [run EXCEPT !.pc = "write", !.audioBlobs = blobs, !.w = 1]
    /\ UNCHANGED <<tokenInfo, now>>

\* await Promise.all(audioPromises) resumes with the first rejection
PromiseAllRejected ==
    /\ run.pc = "await"
    /\ \E j \in 1..Len(run.batch) : run.calls[run.batch[j]].st = "failed"
    /\ run' = StreamVoiceAwait(OnReject(run, tokenInfo, now))
    /\ UNCHANGED <<tokenInfo, now>>

\* await blob.arrayBuffer() resumes: line 143 writes the blob's bytes, then
\* the next blob, or the next iteration
WriteBlob ==
    /\ run.pc = "write"
    /\ LET r1 == [run EXCEPT
                    !.written = Append(@, BlobBytes(run.audioBlobs[run.w]))]
       IN  run' = IF run.w < Len(run.audioBlobs)
                  THEN [r1 EXCEPT !.w = run.w + 1]
                  ELSE StreamVoiceAwait(NextIteration(r1, tokenInfo, now))
    /\ UNCHANGED <<tokenInfo, now>>

\* time passes
Tick ==
    /\ now + TickStep <= MaxTime
    /\ now' = now + TickStep
    /\ UNCHANGED <<tokenInfo, run>>

Next ==
    \/ \E n \in 0..MaxChunks, c \in 1..MaxConcurrency, stream \in BOOLEAN :
          handleSpeechRequest(Sentences(n), SentenceLength, c, stream)
    \/ \E k \in Positions : \E iat \in {run.calls[k].sent, now} :
          getEndpointRefreshed(k, iat)
    \/ \E k \in Positions : getEndpointFailed(k)
    \/ \E k \in Positions : getAudioChunkOk(k)
    \/ \E k \in Positions : getAudioChunkError(k)
    \/ PromiseAllFulfilled
    \/ PromiseAllRejected
    \/ WriteBlob
    \/ Tick

Spec == Init /\ [][Next]_vars

\* ------------------------------------------- any integer concurrency field
\* the requests of Next with at least one chunk, the concurrency field any
\* integer of the request body (line 82), zero and negative ones included
NextAnyConcurrency ==
    \/ \E n \in 1..MaxChunks, c \in (0 - MaxNegConcurrency)..MaxConcurrency,
          stream \in BOOLEAN :
          handleSpeechRequest(Sentences(n), SentenceLength, c, stream)
    \/ \E k \in Positions : \E iat \in {run.calls[k].sent, now} :
          getEndpointRefreshed(k, iat)
    \/ \E k \in Positions : getEndpointFailed(k)
    \/ \E k \in Positions : getAudioChunkOk(k)
    \/ \E k \in Positions : getAudioChunkError(k)
    \/ PromiseAllFulfilled
    \/ PromiseAllRejected
    \/ WriteBlob
    \/ Tick

\* some backend call gets its answer
BackendAnswers ==
    \E k \in Positions :
        \/ \E iat \in {run.calls[k].sent, now} : getEndpointRefreshed(k, iat)
        \/ getEndpointFailed(k)
        \/ getAudioChunkOk(k)
        \/ getAudioChunkError(k)

\* every backend call eventually completes, and the event loop runs every
\* continuation that is ready
SpecAnyConcurrency ==
    /\ Init
    /\ [][NextAnyConcurrency]_vars
    /\ WF_vars(BackendAnswers)
    /\ WF_vars(PromiseAllFulfilled)
    /\ WF_vars(PromiseAllRejected)
    /\ WF_vars(WriteBlob)


\* ------------------------------------------------ smartChunkText alone
\* the characters of the texts tried: a, b, the period, the space, the
\* line feed (a boundary mark that is white space too) and <
TextAlphabet == {97, 98, 46, 32, 10, 60}

Texts == UNION {[1..n -> TextAlphabet] : n \in 0..MaxTextLen}

\* handleSpeechRequest has cleaned the input (line 88)
InitText ==
    /\ tokenInfo = [endpoint |-> Null, token |-> Null, expiredAt |-> 0]
    /\ now = 0
    /\ \E text \in Texts, size \in 1..MaxChunkLength :
          run = [NoRun EXCEPT !.input = text, !.chunk_size = size,
                              !.pc = "cleaned"]

\* line 97: the cleaned input is segmented
segmentInput ==
    /\ run.pc = "cleaned"
    /\ run' = [Segmented(run.input, run.chunk_size) EXCEPT !.pc = "chunked"]
    /\ UNCHANGED <<tokenInfo, now>>

\* line 177, for each chunk: the markup getAudioChunk sends for it
buildSsml ==
    /\ run.pc = "chunked"
    /\ run' = [run EXCEPT
                  !.ssml = [k \in 1..Len(run.chunks) |-> getSsml(run.chunks[k])],
                  !.pc = "marked"]
    /\ UNCHANGED <<tokenInfo, now>>

NextText == segmentInput \/ buildSsml

SpecText == InitText /\ [][NextText]_vars

\* ------------------------------------------------------------ properties
NumChunks == Len(run.chunks)

\* the number of the batch (from 0) that position k belongs to
BatchOf(k) == (k - 1) \div run.concurrency

InFlightCalls == {k \in Positions : InFlight(run.calls[k].st)}
FailedCalls == {k \in Positions : run.calls[k].st = "failed"}
Started == {k \in Positions : run.calls[k].st # "idle"}

\* C1: during a run with concurrency limit c >= 1 the getAudioChunk calls
\* that have been dispatched and have not completed are never more than c,
\* also after a call of the batch has failed.
C1_InFlightBounded ==
    run.concurrency >= 1 => Cardinality(InFlightCalls) <= run.concurrency

\* a call of a full batch of two or more has failed, the others are in flight
C1_Witness ==
    /\ run.concurrency >= 2
    /\ FailedCalls # {}
    /\ Cardinality(InFlightCalls) = run.concurrency - 1
    /\ NumChunks > run.concurrency

\* C2: what reaches the sink (the writes to the stream writer, the blobs of
\* the buffered collection) is the chunks' audio in input chunk order,
\* whatever the order in which the calls of a batch complete.
C2_OutputInChunkOrder ==
    /\ Len(run.written) <= NumChunks
    /\ \A j \in 1..Len(run.written) :
          run.written[j] = BlobBytes(SynthAudio(run.chunks[j]))
    /\ Len(run.allAudioBlobs) <= NumChunks
    /\ \A j \in 1..Len(run.allAudioBlobs) :
          run.allAudioBlobs[j] = SynthAudio(run.chunks[j])

\* a batch whose calls completed in another order than the chunks' has
\* been handed to the sink
C2_Witness ==
    /\ run.pc = "exited"
    /\ run.response \in {"audio", "stream"}
    /\ Len(run.completed) >= 2
    /\ run.completed # run.batch
    /\ Len(run.written) + Len(run.allAudioBlobs) = NumChunks

\* C3: once a call of batch k has failed, no call of a later batch is ever
\* dispatched in that run, in buffered and in streaming mode.
C3_NoDispatchAfterFailure ==
    \A f \in FailedCalls :
        /\ \A m \in Positions : BatchOf(m) > BatchOf(f) => run.calls[m].st = "idle"
        /\ \A j \in 1..Len(run.dispatched) :
              BatchOf(run.dispatched[j]) <= BatchOf(f)

\* a run has ended on a failure with a later batch left
C3_Witness ==
    /\ run.pc = "exited"
    /\ Quiescent
    /\ \E f \in FailedCalls : \E m \in Positions : BatchOf(m) > BatchOf(f)

\* C4: the batches are the consecutive slices of size c, processed one after
\* the other: a call of a batch is dispatched only when every call of the
\* batches before it has completed successfully, and on a successful run
\* every chunk is dispatched exactly once.
C4_BatchesSequential ==
    /\ \A j \in 1..Len(run.dispatched) : run.dispatched[j] = j
    /\ run.pc \in {"await", "write"} =>
          /\ run.i % run.concurrency = 0
          /\ run.batch =
                [j \in 1..Min(run.concurrency, NumChunks - run.i) |-> run.i + j]
    /\ \A m \in Started : \A k \in Positions :
          BatchOf(k) < BatchOf(m) => run.calls[k].st = "done"
    /\ run.response \in {"audio", "stream"} =>
          run.dispatched = [j \in 1..NumChunks |-> j]

\* a successful run of two batches, the last one smaller
C4_Witness ==
    /\ run.response \in {"audio", "stream"}
    /\ run.concurrency >= 2
    /\ NumChunks > run.concurrency
    /\ NumChunks % run.concurrency # 0

C6_WrittenBeforeFailedBatch ==
    run.mode = "stream" =>
        \A f \in FailedCalls :
            run.written =
                [j \in 1..(BatchOf(f) * run.concurrency) |->
                    BlobBytes(SynthAudio(run.chunks[j]))]

\* a streaming run failed in its second batch, in which another call succeeded
C6_Witness ==
    /\ run.mode = "stream"
    /\ run.pc = "exited"
    /\ \E f \in FailedCalls :
          /\ BatchOf(f) >= 1
          /\ \E k \in Positions :
                BatchOf(k) = BatchOf(f) /\ run.calls[k].st = "done"

\* C7: when pipeChunksToStream has exited the writer is no longer open:
\* cleanly closed after a successful run, aborted (errored) after a failed
\* one, although close is called after the abort.
C7_WriterSettledOnExit ==
    (run.mode = "stream" /\ run.pc = "exited") =>
        /\ run.writer # "writable"
        /\ run.pipe = "returned" => run.writer = "closed"
        /\ run.pipe = "threw" => run.writer = "errored"
        /\ FailedCalls # {} => run.writer = "errored"

\* pipeChunksToStream has thrown
C7_Witness ==
    /\ run.mode = "stream"
    /\ run.pc = "exited"
    /\ run.pipe = "threw"
    /\ FailedCalls # {}

\* C8: in buffered mode, when every call succeeds, the payload is the audio
\* of all chunks in input order, each once, returned after the last batch.
C8_BufferedPayload ==
    run.response = "audio" =>
        /\ run.pc = "exited"
        /\ \A k \in Positions : run.calls[k].st = "done"
        /\ Len(run.body) = 2 * NumChunks
        /\ \A k \in Positions :
              SubSeq(run.body, 2 * k - 1, 2 * k) = SynthAudio(run.chunks[k]).bytes

\* the buffered payload of three chunks in two batches
C8_Witness ==
    /\ run.response = "audio"
    /\ NumChunks >= 3
    /\ run.concurrency = 2

\* C9: an audio response is returned only if every chunk's call succeeded;
\* a run in which a call failed ends in the 500 error response (the stream,
\* if any, aborted) and returns none of the audio collected before.
C9_NoPartialSuccess ==
    /\ run.response \in {"audio", "stream"} =>
          \A k \in Positions : run.calls[k].st = "done"
    /\ (FailedCalls # {} /\ run.pc = "exited") =>
          /\ run.response = "error"
          /\ run.body = <<>>
          /\ run.mode = "stream" => run.writer = "errored"

\* a buffered run failed after its first batch had been collected
C9_Witness ==
    /\ run.mode = "buffered"
    /\ run.pc = "exited"
    /\ FailedCalls # {}
    /\ run.allAudioBlobs # <<>>

RefreshingCalls == {k \in Positions : run.calls[k].st = "refresh"}

\* C10: with a stale or empty cache and several concurrent getEndpoint
\* callers, one refresh exchange with the identity service is performed:
\* never two refresh exchanges in flight.
C10_SingleRefresh == Cardinality(RefreshingCalls) <= 1


\* ------------------------------------------------------------ getEndpoint
\* the step starts getAudioChunk calls: a request enters its first batch, or
\* the loop moves on to the next one
DispatchStep ==
    /\ run'.pc = "await"
    /\ run.pc \in {"idle", "exited"} \/ run'.i # run.i

\* C11: if a credential is cached and now < expiredAt - 300, getEndpoint
\* returns that cached credential, makes no network call and leaves the
\* cache as it is.
C11_FreshCacheReturned ==
    [][(/\ DispatchStep
        /\ tokenInfo.token # Null
        /\ now < tokenInfo.expiredAt - 300)
       => /\ tokenInfo' = tokenInfo
          /\ \A j \in 1..Len(run'.batch) :
                LET call == run'.calls[run'.batch[j]]
                IN  /\ call.st = "synth"
                    /\ call.via = "cached"
                    /\ call.ep = tokenInfo.endpoint]_vars

\* the calls of a batch have just got the cached credential
C11_Witness ==
    /\ run.pc = "await"
    /\ run.batch # <<>>
    /\ run.completed = <<>>
    /\ tokenInfo.token # Null
    /\ now < tokenInfo.expiredAt - 300
    /\ \A j \in 1..Len(run.batch) :
          LET call == run.calls[run.batch[j]]
          IN  /\ call.st = "synth"
              /\ call.via = "cached"
              /\ call.sent = now
              /\ call.ep = tokenInfo.endpoint


\* C12: when a refresh fails and a credential is cached (even an expired
\* one), getEndpoint returns the cached credential and leaves the cache as it
\* is; when none is cached the failure reaches the caller and the request
\* fails.  The cache changes only by a successful refresh, as a whole record.
C12_RefreshFailure ==
    /\ [][\A k \in DOMAIN run.calls :
            (run.calls[k].st = "refresh" /\ k \in DOMAIN run'.calls) =>
               /\ run'.calls[k].via = "fallback" =>
                     /\ tokenInfo.token # Null
                     /\ run'.calls[k].st = "synth"
                     /\ run'.calls[k].ep = tokenInfo.endpoint
                     /\ tokenInfo' = tokenInfo
               /\ run'.calls[k].st = "failed" =>
                     /\ tokenInfo.token = Null
                     /\ tokenInfo' = tokenInfo]_vars
    /\ [][tokenInfo' # tokenInfo =>
            \E k \in DOMAIN run.calls :
               /\ run.calls[k].st = "refresh"
               /\ run'.calls[k].via = "fetched"
               /\ tokenInfo'.endpoint = run'.calls[k].ep
               /\ tokenInfo'.token = run'.calls[k].ep
               /\ tokenInfo'.expiredAt = JwtExp(run'.calls[k].ep)]_vars
    /\ [](\A k \in Positions :
            (run.calls[k].st = "failed" /\ run.calls[k].via = "" /\ run.pc = "exited")
               => run.response = "error")

\* a call goes on with a cached credential that has expired, its refresh
\* having failed
C12_Witness ==
    \E k \in Positions :
        /\ run.calls[k].via = "fallback"
        /\ run.calls[k].ep = tokenInfo.endpoint
        /\ now >= tokenInfo.expiredAt


C16_RequestAnswered ==
    (run.mode # "none" /\ run.response = "none") ~> (run.response # "none")


\* ---------------------------------------------------------- the segmenter
SegmenterDone == run.pc \in {"chunked", "marked"}

RECURSIVE Concat(_)
Concat(strs) == IF strs = <<>> THEN <<>> ELSE Head(strs) \o Concat(Tail(strs))

WithoutWhiteSpace(str) == SelectSeq(str, LAMBDA ch : ch \notin WhiteSpaceChars)

\* C13: for a non-empty text and maxLength > 0 smartChunkText returns a
\* non-empty sequence, and every chunk is at most maxLength long unless the
\* fixed-width slicing produced the output.
C13_NonEmptyAndBounded ==
    (SegmenterDone /\ run.input # <<>>) =>
        /\ run.chunks # <<>>
        /\ \/ \A j \in 1..Len(run.chunks) : Len(run.chunks[j]) <= run.chunk_size
           \/ BoundaryPass(run.input, run.chunk_size) = <<>>

\* C14: the chunks of smartChunkText, concatenated in order and with the
\* white space removed, are the text with its white space removed.
C14_ContentPreserved ==
    SegmenterDone =>
        WithoutWhiteSpace(Concat(run.chunks)) = WithoutWhiteSpace(run.input)

\* a text of two chunks or more that lost white space at a chunk border
C14_Witness ==
    /\ SegmenterDone
    /\ Len(run.chunks) >= 2
    /\ Len(Concat(run.chunks)) < Len(run.input)
    /\ \E p, q \in 1..Len(run.input) :
          run.input[p] = 97 /\ run.input[q] = 98

\* C17: a text without boundary marks that is longer than maxLength comes
\* out as its consecutive substrings of maxLength characters, the last one
\* possibly shorter (here: for the texts without white space, which trimming
\* leaves as they are).
C17_FixedWidthFallback ==
    (/\ SegmenterDone
     /\ Len(run.input) > run.chunk_size
     /\ \A p \in 1..Len(run.input) :
           run.input[p] \notin BoundaryChars \cup WhiteSpaceChars)
      => run.chunks = FixedSlices(run.input, 0, run.chunk_size)

\* C18: a run of boundary marks stays with the piece before it, so no chunk
\* starts with a boundary mark that followed text in the input (here: texts
\* without white space that start with a letter, where every run of marks
\* follows text).
C18_MarksStayWithSentence ==
    (/\ SegmenterDone
     /\ run.input # <<>>
     /\ Head(run.input) \notin BoundaryChars
     /\ \A p \in 1..Len(run.input) : run.input[p] \notin WhiteSpaceChars)
      => \A j \in 1..Len(run.chunks) : Head(run.chunks[j]) \notin BoundaryChars

\* C15: an empty cleaned text gives no chunk, and the run over no chunk
\* dispatches no synthesis call and no refresh and ends in an empty
\* successful response, the stream cleanly closed.
C15_EmptyInput ==
    /\ smartChunkText(<<>>, SentenceLength) = <<>>
    /\ (run.mode \in {"buffered", "stream"} /\ run.input = <<>>) =>
          /\ run.chunks = <<>>
          /\ run.calls = <<>>
          /\ run.dispatched = <<>>
          /\ run.pc = "exited"
          /\ run.body = <<>>
          /\ run.mode = "buffered" => run.response = "audio"
          /\ run.mode = "stream" =>
                /\ run.response = "stream"
                /\ run.writer = "closed"
                /\ run.written = <<>>

\* the streamed response of a request whose cleaned text is empty
C15_Witness ==
    /\ run.mode = "stream"
    /\ run.input = <<>>
    /\ run.response = "stream"

\* ---------------------------------------------------------------- getSsml
\* what getSsml put between <prosody> and </prosody>
ProsodyContent(ssml) ==
    SubSeq(ssml, Len(ProsodyOpen) + 1, Len(ssml) - Len(ProsodyClose))

\* &amp; &lt; &gt;
Entities ==
    {<<38, 97, 109, 112, 59>>, <<38, 108, 116, 59>>, <<38, 103, 116, 59>>}

\* C20: in the payload of getSsml the &, < and > of the chunk text are
\* escaped: inside the prosody element there is no raw < or >, and every &
\* starts an entity.
C20_MarkupEscaped ==
    run.pc = "marked" =>
        \A k \in 1..Len(run.ssml) :
            LET content == ProsodyContent(run.ssml[k])
            IN  \A p \in 1..Len(content) :
                    /\ content[p] \notin {60, 62}
                    /\ content[p] = 38 =>
                          \E e \in Entities :
                              SubSeq(content, p, p + Len(e) - 1) = e

====
